---- MODULE Spec2Model ----
(***************************************************************************)
(* Model of src/src/App.jsx: the DashboardStats view (localStorage cache   *)
(* with a 10 minute freshness window, fetchStats, the 5 minute auto        *)
(* refresh, the manual refresh button) and one StatCard (the count-up      *)
(* animation effect).                                                      *)
(*                                                                         *)
(* Every handler of the single-threaded event loop is one action: the      *)
(* synchronous part of fetchStats up to its first await, the continuation  *)
(* after the awaits, a timer callback, an animation frame.  The two awaits *)
(* of fetchStats (fetch, response.json) touch no state between them, so    *)
(* the continuation is one step whose outcome is chosen when it runs.      *)
(*                                                                         *)
(* Wall-clock time of the view is counted in minutes (the code's           *)
(* 10 * 60 * 1000 ms and 300000 ms); Date.now() is one value during a      *)
(* synchronous handler.  localStorage.getItem/setItem are taken not to     *)
(* throw (a corrupt or missing value is modelled, a storage fault is not). *)
(* The card is one component instance whose `value` prop changes: the      *)
(* effect of lines 131-208 runs, after the previous run's cleanup, each    *)
(* time `value` differs from the previous render.                          *)
(***************************************************************************)
EXTENDS Integers, Sequences, FiniteSets, TLC

VARIABLES
    \* ---- DashboardStats ----
    pc,             \* "constructed" (rendered, effect not yet run), "active", "inactive"
    now,            \* Date.now(), minutes
    stats,          \* useState stats (line 5)
    loading,        \* useState loading (line 11)
    lastUpdated,    \* useState lastUpdated (line 12)
    error,          \* useState error (line 13); Null or a message
    intervalRef,    \* TRUE while the setInterval of line 113 is armed
    intervalDue,    \* time of the interval's next firing
    mountedRef,     \* mountedRef.current (line 15)
    lsStats,        \* localStorage['dashboard_stats']
    lsTime,         \* localStorage['dashboard_last_updated']
    inflight,       \* number of fetchStats calls suspended at their await
    \* ---- history of the last handler (for the properties) ----
    lastOp,         \* name of the handler that ran last
    opCalls,        \* network requests that handler issued
    lastResp,       \* the response the last continuation of fetchStats handled
    \* ---- one StatCard ----
    value,          \* the `value` prop
    displayValue,   \* useState displayValue (line 124)
    isAnimating,    \* useState isAnimating (line 125)
    animationRef,   \* animationRef.current is non-null (line 126)
    previousValueRef,
    hasInitializedRef,
    hasCleanup,     \* the last run of the effect returned the cleanup of line 202
    timeoutPending, \* the setTimeout of line 193 has not fired yet
    framePending,   \* a requestAnimationFrame(animate) callback is scheduled
    startValue,     \* closure of startAnimation: startValue (line 155)
    targetValue,    \* closure of startAnimation: targetValue (line 156)
    elapsed,        \* Date.now() - startTime of that closure, ms (capped)
    cardOp,         \* name of the card handler that ran last
    baseline,       \* previousValueRef.current before the last new target
    shownBefore,    \* displayValue before the last new target
    preempted       \* the last new target arrived while the card was animating

viewVars == <<pc, now, stats, loading, lastUpdated, error, intervalRef, intervalDue,
              lsStats, lsTime, inflight, lastOp, opCalls, lastResp>>
cardVars == <<value, displayValue, isAnimating, animationRef, previousValueRef,
              hasInitializedRef, hasCleanup, timeoutPending, framePending,
              startValue, targetValue, elapsed, cardOp, baseline, shownBefore,
              preempted>>
vars == <<viewVars, mountedRef, cardVars>>

\* ---------------------------------------------------------------- bounds
MaxElapsed == 11    \* minutes of wall-clock time a run of the view covers
MaxInflight == 2    \* fetchStats calls allowed to overlap

\* ------------------------------------------------------ program constants
TEN_MINUTES == 10       \* 10 * 60 * 1000 ms
REFRESH_MINUTES == 5    \* 300000 ms
duration == 1500        \* ms

\* ------------------------------------------------------------- the data
Null == "null"

ZeroStats == [total_users |-> 0, total_providers |-> 0,
              total_active_providers |-> 0, total_queries_processed |-> 0]
SnapA == [total_users |-> 1200, total_providers |-> 34,
          total_active_providers |-> 29, total_queries_processed |-> 58210]
SnapB == [total_users |-> 1300, total_providers |-> 34,
          total_active_providers |-> 0, total_queries_processed |-> 58300]
\* bodies the endpoint answers with
Bodies == {ZeroStats, SnapA, SnapB}

\* what the awaits of fetchStats end with: a 2xx response with a JSON body,
\* a non-2xx response, a rejected fetch, a 2xx response whose body is no JSON
Responses == [kind : {"ok"}, body : Bodies]
             \cup [kind : {"http", "network", "parse"}, body : {SnapB}]
NoResponse == [kind |-> "none", body |-> ZeroStats]
\* error.message in the catch branch
Message(resp) ==
    CASE resp.kind = "http" -> "HTTP 500: Internal Server Error"
      [] resp.kind = "network" -> "Failed to fetch"
      [] OTHER -> "Unexpected token < in JSON"

\* localStorage values: null (no item), a string that is no JSON / no date,
\* or what JSON.stringify / toISOString wrote
NoItem == [kind |-> "null", val |-> ZeroStats, t |-> 0]
Garbage == [kind |-> "garbage", val |-> ZeroStats, t |-> 0]
JSONstringify(data) == [kind |-> "json", val |-> data, t |-> 0]
toISOString(date) == [kind |-> "iso", val |-> ZeroStats, t |-> date]

\* JSON.parse: throws unless the string is JSON
ParseThrows(s) == s.kind # "json"
JSONparse(s) == s.val
\* new Date(string): Invalid Date unless the string is a date
InvalidDate(s) == s.kind # "iso"
NewDate(s) == s.t
\* a string is truthy unless it is null (or empty)
Truthy(s) == s.kind # "null"

\* time at which the view is constructed, and the ages of an entry left by
\* an earlier session
StartTime == TEN_MINUTES + 1
InitAges == {2, TEN_MINUTES - 1, TEN_MINUTES, TEN_MINUTES + 1}
EndTime == StartTime + MaxElapsed

\* ------------------------------------------------------- DashboardStats

\* the condition under which loadCachedData takes the cached entry
\* (lines 26-35): both items present, the snapshot parses, the date is
\* later than ten minutes ago (an Invalid Date compares false)
CacheHit_Inclusive(ss, st, t) ==
    /\ Truthy(ss) /\ Truthy(st)
    /\ ~ParseThrows(ss)
    /\ ~InvalidDate(st)
    /\ NewDate(st) >= t - TEN_MINUTES
CacheHit_NoParseCheck(ss, st, t) ==
    /\ Truthy(ss) /\ Truthy(st)
    /\ ~InvalidDate(st)
    /\ NewDate(st) > t - TEN_MINUTES
CacheHit(ss, st, t) ==
    /\ Truthy(ss) /\ Truthy(st)
    /\ ~ParseThrows(ss)
    /\ ~InvalidDate(st)
    /\ NewDate(st) > t - TEN_MINUTES

\* loadCachedData (lines 24-45), called with the view state s, lu it may
\* replace: its return value and the stats / lastUpdated it leaves
loadCachedData(s, lu) ==
    IF CacheHit(lsStats, lsTime, now)
    THEN [hit |-> TRUE, stats |-> JSONparse(lsStats), lastUpdated |-> NewDate(lsTime)]
    ELSE [hit |-> FALSE, stats |-> s, lastUpdated |-> lu]

\* saveToCache (lines 48-55)
saveToCache_KeepsTime(statsData, updatedTime) ==
    /\ lsStats' = JSONstringify(statsData)
    /\ lsTime' = lsTime
saveToCache_StateSnapshot(statsData, updatedTime) ==
    /\ lsStats' = JSONstringify(stats)
    /\ lsTime' = toISOString(updatedTime)
saveToCache(statsData, updatedTime) ==
    /\ lsStats' = JSONstringify(statsData)
    /\ lsTime' = toISOString(updatedTime)

\* line 66: !skipCache && loadCachedData()
ServedFromCache_IgnoresSkip(skipCache, hit) == hit
ServedFromCache_Inverted(skipCache, hit) == skipCache /\ ~hit
ServedFromCache(skipCache, hit) == ~skipCache /\ hit

\* fetchStats up to its await (lines 58-76), from view state s, lu
fetchStats(skipCache, s, lu) ==
    IF ~mountedRef
    THEN /\ stats' = s /\ lastUpdated' = lu
         /\ opCalls' = 0
         /\ UNCHANGED <<loading, error, inflight>>
    ELSE LET c == loadCachedData(s, lu) IN
         /\ error' = Null
         /\ stats' = IF skipCache THEN s ELSE c.stats
         /\ lastUpdated' = IF skipCache THEN lu ELSE c.lastUpdated
         /\ IF ServedFromCache(skipCache, c.hit)
            THEN /\ loading' = FALSE
                 /\ opCalls' = 0
                 /\ inflight' = inflight
            ELSE /\ loading' = TRUE
                 /\ opCalls' = 1
                 /\ inflight' = inflight + 1

\* line 78: response.ok, and response.json() resolved
Succeeds_NoOkCheck(resp) == resp.kind \in {"ok", "http"}
Succeeds(resp) == resp.kind = "ok"

\* the cleanups of the card the unmount of the view runs (lines 202-207,
\* 212-216): cancel the scheduled frame
CardCleanup ==
    /\ framePending' = (IF animationRef THEN FALSE ELSE framePending)
    /\ animationRef' = (IF hasCleanup THEN FALSE ELSE animationRef)
    /\ hasCleanup' = FALSE

\* the effect of lines 103-121 on mount
Activate ==
    /\ pc = "constructed"
    /\ pc' = "active"
    /\ mountedRef' = TRUE
    /\ LET hadCachedData == loadCachedData(stats, lastUpdated) IN
       fetchStats(~hadCachedData.hit, hadCachedData.stats, hadCachedData.lastUpdated)
    /\ intervalRef' = TRUE
    /\ intervalDue' = now + REFRESH_MINUTES
    /\ lastOp' = "activate"
    /\ UNCHANGED <<now, lsStats, lsTime, lastResp, cardVars>>

\* the interval callback of line 113
TimerFire ==
    /\ intervalRef
    /\ now = intervalDue
    /\ inflight < MaxInflight
    /\ fetchStats(TRUE, stats, lastUpdated)
    /\ intervalDue' = now + REFRESH_MINUTES
    /\ lastOp' = "timer"
    /\ UNCHANGED <<pc, now, intervalRef, mountedRef, lsStats, lsTime, lastResp, cardVars>>

\* the Refresh button (lines 404-406): rendered while the view is mounted,
\* disabled while loading
ClickRefresh ==
    /\ pc = "active"
    /\ ~loading
    /\ inflight < MaxInflight
    /\ fetchStats(TRUE, stats, lastUpdated)
    /\ lastOp' = "click"
    /\ UNCHANGED <<pc, now, intervalRef, intervalDue, mountedRef, lsStats, lsTime,
                   lastResp, cardVars>>

Complete_NoMountedCheck(resp) ==
    /\ inflight > 0
    /\ inflight' = inflight - 1
    /\ lastOp' = "complete"
    /\ lastResp' = resp
    /\ opCalls' = 0
    /\ IF resp.kind = "ok"
       THEN /\ stats' = resp.body
            /\ lastUpdated' = now
            /\ lsStats' = JSONstringify(resp.body)
            /\ lsTime' = toISOString(now)
            /\ loading' = FALSE
            /\ error' = error
       ELSE LET c == loadCachedData(stats, lastUpdated) IN
            /\ error' = Message(resp)
            /\ stats' = c.stats
            /\ lastUpdated' = c.lastUpdated
            /\ loading' = FALSE
            /\ UNCHANGED <<lsStats, lsTime>>
    /\ UNCHANGED <<pc, now, intervalRef, intervalDue, mountedRef, cardVars>>
\* fetchStats after its awaits (lines 78-100), the awaits ending with resp
Complete(resp) ==
    /\ inflight > 0
    /\ inflight' = inflight - 1
    /\ lastOp' = "complete"
    /\ lastResp' = resp
    /\ opCalls' = 0
    /\ IF Succeeds(resp)
       THEN IF mountedRef
            THEN /\ stats' = resp.body
                 /\ lastUpdated' = now
                 /\ saveToCache(resp.body, now)
                 /\ loading' = FALSE
                 /\ error' = error
            ELSE UNCHANGED <<stats, lastUpdated, lsStats, lsTime, loading, error>>
       ELSE IF mountedRef
            THEN LET c == loadCachedData(stats, lastUpdated) IN
                 /\ error' = Message(resp)
                 /\ stats' = c.stats
                 /\ lastUpdated' = c.lastUpdated
                 /\ loading' = FALSE
                 /\ UNCHANGED <<lsStats, lsTime>>
            ELSE UNCHANGED <<stats, lastUpdated, lsStats, lsTime, loading, error>>
    /\ UNCHANGED <<pc, now, intervalRef, intervalDue, mountedRef, cardVars>>

Deactivate_KeepsInterval ==
    /\ pc = "active"
    /\ pc' = "inactive"
    /\ mountedRef' = FALSE
    /\ intervalRef' = intervalRef
    /\ lastOp' = "deactivate"
    /\ opCalls' = 0
    /\ cardOp' = "unmount"
    /\ CardCleanup
    /\ UNCHANGED <<now, stats, loading, lastUpdated, error, intervalDue, lsStats,
                   lsTime, inflight, lastResp>>
    /\ UNCHANGED <<value, displayValue, isAnimating, previousValueRef,
                   hasInitializedRef, timeoutPending, startValue, targetValue,
                   elapsed, baseline, shownBefore, preempted>>
\* the cleanup of lines 115-120, and with it the unmount of the card
Deactivate ==
    /\ pc = "active"
    /\ pc' = "inactive"
    /\ mountedRef' = FALSE
    /\ intervalRef' = FALSE
    /\ lastOp' = "deactivate"
    /\ opCalls' = 0
    /\ cardOp' = "unmount"
    /\ CardCleanup
    /\ UNCHANGED <<now, stats, loading, lastUpdated, error, intervalDue, lsStats,
                   lsTime, inflight, lastResp>>
    /\ UNCHANGED <<value, displayValue, isAnimating, previousValueRef,
                   hasInitializedRef, timeoutPending, startValue, targetValue,
                   elapsed, baseline, shownBefore, preempted>>

\* a minute passes; an armed interval fires when it is due
Tick ==
    /\ pc # "constructed"
    /\ now < EndTime
    /\ intervalRef => now < intervalDue
    /\ now' = now + 1
    /\ lastOp' = "tick"
    /\ opCalls' = 0
    /\ UNCHANGED <<pc, stats, loading, lastUpdated, error, intervalRef, intervalDue,
                   mountedRef, lsStats, lsTime, inflight, lastResp, cardVars>>

\* the card as first rendered (lines 124-129), its effect having run for
\* value 0 (the initial stats)
CardInit ==
    /\ value = 0
    /\ displayValue = 0
    /\ isAnimating = FALSE
    /\ animationRef = FALSE
    /\ previousValueRef = 0
    /\ hasInitializedRef = FALSE
    /\ hasCleanup = FALSE
    /\ timeoutPending = FALSE
    /\ framePending = FALSE
    /\ startValue = 0
    /\ targetValue = 0
    /\ elapsed = 0
    /\ cardOp = "mount"
    /\ baseline = 0
    /\ shownBefore = 0
    /\ preempted = FALSE

\* the view as first rendered (lines 5-15), over what an earlier session
\* left in localStorage
Init ==
    /\ pc = "constructed"
    /\ now = StartTime
    /\ stats = ZeroStats
    /\ loading = FALSE
    /\ lastUpdated = StartTime
    /\ error = Null
    /\ intervalRef = FALSE
    /\ intervalDue = 0
    /\ mountedRef = TRUE
    /\ lsStats \in {NoItem, Garbage, JSONstringify(SnapA)}
    /\ lsTime \in {NoItem, Garbage} \cup {toISOString(StartTime - a) : a \in InitAges}
    /\ inflight = 0
    /\ lastOp = "init"
    /\ opCalls = 0
    /\ lastResp = NoResponse
    /\ CardInit

Next ==
    \/ Activate
    \/ TimerFire
    \/ ClickRefresh
    \/ \E resp \in Responses : Complete(resp)
    \/ Deactivate
    \/ Tick

Spec == Init /\ [][Next]_vars

\* ------------------------------------------------------------- StatCard

\* the `delay` prop of the card (the fourth card's)
delay == 300
\* values the `value` prop takes
Targets == {0, 8, 1000}
\* the instants (ms after startTime) at which Date.now() is read
SampleTimes == {0, 250, 500, 750, 1000, 1250, 1500}

RECURSIVE GCD(_, _)
GCD(a, b) == IF b = 0 THEN a ELSE GCD(b, a % b)

CurrentValue_Quadratic(sv, tv, e) ==
    LET r  == IF e >= duration THEN 0 ELSE duration - e
        g  == GCD(duration, r)
        dn == duration \div g
        rn == r \div g
        d2 == dn * dn
    IN  sv + (((tv - sv) * (d2 - rn * rn)) \div d2)
CurrentValue_Overshoot(sv, tv, e) ==
    LET r  == IF e >= duration THEN 0 ELSE duration - e
        g  == GCD(duration, r)
        dn == duration \div g
        rn == r \div g
        d3 == dn * dn * dn
    IN  sv + (((tv - sv) * (d3 + rn * rn * rn)) \div d3)
\* lines 173-180: Math.floor(startValue + difference * easeOutCubic) at
\* elapsed e, with progress = min(e / duration, 1) kept an exact fraction
CurrentValue(sv, tv, e) ==
    LET r  == IF e >= duration THEN 0 ELSE duration - e
        g  == GCD(duration, r)
        dn == duration \div g
        rn == r \div g
        d3 == dn * dn * dn
    IN  sv + (((tv - sv) * (d3 - rn * rn * rn)) \div d3)

\* a render with a new `value` prop t: the cleanup the previous run of the
\* effect returned (lines 202-207), then the effect (lines 131-200)
NewValue(t) ==
    /\ pc = "active"
    /\ t # value
    /\ value' = t
    /\ cardOp' = "value"
    /\ baseline' = previousValueRef
    /\ shownBefore' = displayValue
    /\ preempted' = isAnimating
    /\ LET cancelled == hasCleanup /\ animationRef
           frame1 == framePending /\ ~cancelled
           ref1 == animationRef /\ ~hasCleanup
       IN
       IF t = 0 \/ t = previousValueRef
       THEN /\ IF ~hasInitializedRef /\ t > 0
               THEN /\ displayValue' = t
                    /\ hasInitializedRef' = TRUE
                    /\ previousValueRef' = t
               ELSE UNCHANGED <<displayValue, hasInitializedRef, previousValueRef>>
            /\ hasCleanup' = FALSE
            /\ framePending' = frame1
            /\ animationRef' = ref1
            /\ UNCHANGED <<isAnimating, timeoutPending, startValue, targetValue, elapsed>>
       ELSE \* lines 143-146: clearInterval does not cancel an animation frame
            /\ animationRef' = FALSE
            /\ framePending' = frame1
            /\ UNCHANGED <<displayValue, hasInitializedRef, previousValueRef>>
            /\ IF isAnimating
               THEN /\ hasCleanup' = FALSE
                    /\ UNCHANGED <<isAnimating, timeoutPending, startValue,
                                   targetValue, elapsed>>
               ELSE \* startAnimation (lines 151-198)
                    /\ hasCleanup' = TRUE
                    /\ IF ~mountedRef
                       THEN UNCHANGED <<isAnimating, timeoutPending, startValue,
                                        targetValue, elapsed>>
                       ELSE LET sv == IF hasInitializedRef THEN previousValueRef ELSE 0 IN
                            /\ startValue' = sv
                            /\ targetValue' = t
                            /\ IF t - sv = 0
                               THEN UNCHANGED <<isAnimating, timeoutPending, elapsed>>
                               ELSE /\ isAnimating' = TRUE
                                    /\ timeoutPending' = TRUE
                                    /\ elapsed' = 0
    /\ UNCHANGED <<viewVars, mountedRef>>

TimeoutFire_NoMountCheck ==
    /\ timeoutPending
    /\ elapsed >= delay
    /\ timeoutPending' = FALSE
    /\ cardOp' = "timeout"
    /\ animationRef' = TRUE /\ framePending' = TRUE
    /\ UNCHANGED <<value, displayValue, isAnimating, previousValueRef,
                   hasInitializedRef, hasCleanup, startValue, targetValue, elapsed,
                   baseline, shownBefore, preempted>>
    /\ UNCHANGED <<viewVars, mountedRef>>

\* the callback of the setTimeout of lines 193-197
TimeoutFire ==
    /\ timeoutPending
    /\ elapsed >= delay
    /\ timeoutPending' = FALSE
    /\ cardOp' = "timeout"
    /\ IF mountedRef
       THEN animationRef' = TRUE /\ framePending' = TRUE
       ELSE UNCHANGED <<animationRef, framePending>>
    /\ UNCHANGED <<value, displayValue, isAnimating, previousValueRef,
                   hasInitializedRef, hasCleanup, startValue, targetValue, elapsed,
                   baseline, shownBefore, preempted>>
    /\ UNCHANGED <<viewVars, mountedRef>>

Frame_ForgetsBaseline ==
    /\ framePending
    /\ cardOp' = "frame"
    /\ IF ~mountedRef
       THEN /\ isAnimating' = FALSE
            /\ framePending' = FALSE
            /\ UNCHANGED <<displayValue, hasInitializedRef, previousValueRef, animationRef>>
       ELSE IF elapsed >= duration
            THEN /\ displayValue' = targetValue
                 /\ isAnimating' = FALSE
                 /\ hasInitializedRef' = TRUE
                 /\ previousValueRef' = previousValueRef
                 /\ framePending' = FALSE
                 /\ UNCHANGED animationRef
            ELSE /\ displayValue' = CurrentValue(startValue, targetValue, elapsed)
                 /\ animationRef' = TRUE
                 /\ framePending' = TRUE
                 /\ UNCHANGED <<isAnimating, hasInitializedRef, previousValueRef>>
    /\ UNCHANGED <<value, hasCleanup, timeoutPending, startValue, targetValue, elapsed,
                   baseline, shownBefore, preempted>>
    /\ UNCHANGED <<viewVars, mountedRef>>

\* animate (lines 167-190), run as an animation frame
Frame ==
    /\ framePending
    /\ cardOp' = "frame"
    /\ IF ~mountedRef
       THEN /\ isAnimating' = FALSE
            /\ framePending' = FALSE
            /\ UNCHANGED <<displayValue, hasInitializedRef, previousValueRef, animationRef>>
       ELSE IF elapsed >= duration
            THEN /\ displayValue' = targetValue
                 /\ isAnimating' = FALSE
                 /\ hasInitializedRef' = TRUE
                 /\ previousValueRef' = targetValue
                 /\ framePending' = FALSE
                 /\ UNCHANGED animationRef
            ELSE /\ displayValue' = CurrentValue(startValue, targetValue, elapsed)
                 /\ animationRef' = TRUE
                 /\ framePending' = TRUE
                 /\ UNCHANGED <<isAnimating, hasInitializedRef, previousValueRef>>
    /\ UNCHANGED <<value, hasCleanup, timeoutPending, startValue, targetValue, elapsed,
                   baseline, shownBefore, preempted>>
    /\ UNCHANGED <<viewVars, mountedRef>>

\* time passes for the running animation; the timeout fires when it is due
CardTick ==
    /\ timeoutPending \/ framePending
    /\ timeoutPending => elapsed < delay
    /\ elapsed < duration
    /\ elapsed' = CHOOSE e \in SampleTimes :
                     /\ e > elapsed
                     /\ \A f \in SampleTimes : f > elapsed => e <= f
    /\ cardOp' = "tick"
    /\ UNCHANGED <<value, displayValue, isAnimating, animationRef, previousValueRef,
                   hasInitializedRef, hasCleanup, timeoutPending, framePending,
                   startValue, targetValue, baseline, shownBefore, preempted>>
    /\ UNCHANGED <<viewVars, mountedRef>>

\* the card inside a view that was activated over an empty localStorage
InitCard ==
    /\ pc = "active"
    /\ now = StartTime
    /\ stats = ZeroStats
    /\ loading = TRUE
    /\ lastUpdated = StartTime
    /\ error = Null
    /\ intervalRef = TRUE
    /\ intervalDue = StartTime + REFRESH_MINUTES
    /\ mountedRef = TRUE
    /\ lsStats = NoItem
    /\ lsTime = NoItem
    /\ inflight = 1
    /\ lastOp = "activate"
    /\ opCalls = 1
    /\ lastResp = NoResponse
    /\ CardInit

NextCard ==
    \/ \E t \in Targets : NewValue(t)
    \/ TimeoutFire
    \/ Frame
    \/ CardTick
    \/ Deactivate

SpecCard == InitCard /\ [][NextCard]_vars

\* ------------------------------------------------------------ properties

\* a persisted entry: a snapshot that parses and the time it was captured
EntryExists == lsStats.kind = "json" /\ lsTime.kind = "iso"
\* now - captureTimestamp < 10 minutes
EntryFresh == EntryExists /\ now - lsTime.t < TEN_MINUTES
\* a snapshot or timestamp slot is absent, or the snapshot is unparsable
EntryBroken == lsStats.kind \in {"null", "garbage"} \/ lsTime.kind = "null"
\* the last step was the continuation of a fetch, in a mounted view
Succeeded == lastOp = "complete" /\ lastResp.kind = "ok" /\ mountedRef
Failed == lastOp = "complete" /\ lastResp.kind # "ok" /\ mountedRef

C2_FailureShowsPersisted ==
    Failed => IF EntryExists THEN stats = lsStats.val ELSE stats = ZeroStats

\* C3: an activation that finds no persisted entry, or a stale one (age of
\* ten minutes or more), issues exactly one network request.
C3_StaleActivationFetchesOnce ==
    (lastOp = "activate" /\ ~EntryFresh) => (opCalls = 1 /\ inflight = 1)
C3_Witness ==
    /\ lastOp = "activate"
    /\ EntryExists
    /\ now - lsTime.t = TEN_MINUTES
    /\ opCalls = 1

\* C4: every forced refresh, from the interval or from the Refresh button,
\* issues a network request, whatever the freshness of the persisted entry.
C4_ForcedRefreshFetches ==
    lastOp \in {"timer", "click"} => opCalls = 1
C4_Witness ==
    /\ lastOp \in {"timer", "click"}
    /\ EntryFresh
    /\ inflight > 0

C6_OnlySuccessWrites ==
    [][ /\ (lastOp' = "complete" /\ lastResp'.kind # "ok")
            => (lsStats' = lsStats /\ lsTime' = lsTime)
        /\ (lsStats' # lsStats \/ lsTime' # lsTime)
            => (lastOp' = "complete" /\ lastResp'.kind = "ok" /\ mountedRef)
      ]_vars
C6_Witness ==
    /\ Failed
    /\ EntryExists
    /\ lastResp.kind = "http"

\* C9: after a successful fetch handled by a mounted view no error is
\* displayed, also when refreshes overlap.
C9_SuccessClearsError ==
    Succeeded => error = Null

\* C10: with a broken persisted entry (a slot absent, or the snapshot
\* unparsable) loadCachedData changes nothing displayed and sets no error:
\* activation acts as over an empty cache (one request, loading, no error),
\* and a failed fetch shows only the fetch's own error.
C10_BrokenCacheIsEmptyCache ==
    [][ EntryBroken =>
          /\ lastOp' = "activate"
                => /\ stats' = stats /\ lastUpdated' = lastUpdated
                   /\ error' = Null
                   /\ opCalls' = 1 /\ inflight' = 1 /\ loading'
          /\ (lastOp' = "complete" /\ lastResp'.kind # "ok")
                => /\ stats' = stats /\ lastUpdated' = lastUpdated
                   /\ mountedRef => error' = Message(lastResp')
      ]_vars
C10_Witness ==
    /\ lastOp = "activate"
    /\ lsStats = Garbage
    /\ lsTime = toISOString(now - 2)
    /\ opCalls = 1

\* C7: a card at rest showing its baseline p that gets a new target t with
\* t = p or t = 0 shows t at once.
C7_TrivialTargetShown ==
    (cardOp = "value" /\ ~preempted /\ shownBefore = baseline
       /\ (value = 0 \/ value = baseline))
        => displayValue = value

\* C8: a card whose animation was preempted by a new target t2, in a view
\* that stays mounted, with nothing left scheduled, shows t2 and is not
\* animating.
C8_PreemptedSettlesAtNewTarget ==
    (mountedRef /\ preempted /\ value # 0 /\ ~timeoutPending /\ ~framePending)
        => (displayValue = value /\ ~isAnimating)


\* C11: a frame of a running animation from p to t at elapsed time e shows
\* floor(p + (t - p) * (1 - (1 - min(e / 1500, 1))^3)); for p = 0, t = 1000,
\* e = 750 it shows 875.  (In units of 250 ms: v is the floor iff
\* 216 v <= 216 p + (t - p) (216 - (6 - k)^3) < 216 (v + 1).)
C11_FrameShowsEasedFloor ==
    (cardOp = "frame" /\ mountedRef)
        => LET k == IF elapsed >= 1500 THEN 6 ELSE elapsed \div 250
               c == (6 - k) * (6 - k) * (6 - k)
               x == 216 * startValue + (targetValue - startValue) * (216 - c)
           IN  /\ 216 * displayValue <= x
               /\ x < 216 * (displayValue + 1)
               /\ (startValue = 0 /\ targetValue = 1000 /\ elapsed = 750)
                      => displayValue = 875
C11_Witness ==
    /\ cardOp = "frame" /\ mountedRef
    /\ startValue = 0 /\ targetValue = 1000 /\ elapsed = 750
    /\ displayValue = 875


\* C12: the view never has more than one network refresh in flight.
C12_SingleFlight ==
    inflight <= 1

\* C13: the continuation of a fetch that ends after the view was
\* deactivated changes neither stats, lastUpdated, error, loading nor the
\* localStorage slots.
C13_StaleCompletionIsInert ==
    [][ (lastOp' = "complete" /\ ~mountedRef)
          => UNCHANGED <<stats, lastUpdated, error, loading, lsStats, lsTime>>
      ]_vars
C13_Witness ==
    /\ lastOp = "complete"
    /\ ~mountedRef
    /\ lastResp.kind = "ok"
    /\ lastResp.body # stats
    /\ loading

\* C14: once the view is deactivated its interval is cancelled and no step
\* starts a network request.
C14_NoRequestAfterDeactivation ==
    [][ pc = "inactive"
          => /\ ~intervalRef /\ ~intervalRef'
             /\ opCalls' = 0
             /\ inflight' <= inflight
      ]_vars
C14_Witness ==
    /\ pc = "inactive"
    /\ now >= intervalDue
    /\ lastOp = "tick"

\* C19: while the view is active and loading is false (the Refresh button
\* is enabled) no network request of the view is in flight.
C19_NotLoadingMeansIdle ==
    (pc = "active" /\ ~loading) => inflight = 0

\* the view has handled a successful fetch (entries of earlier sessions are
\* older than the view)
HasFetched == lsTime.kind = "iso" /\ lsTime.t >= StartTime

SpecCardFair ==
    /\ SpecCard
    /\ WF_vars(TimeoutFire)
    /\ WF_vars(Frame)
    /\ WF_vars(CardTick)

Between(a, x, b) == (a <= x /\ x <= b) \/ (b <= x /\ x <= a)

\* C15: while a card animates from p to t (t above or below p) the shown
\* value lies between p and t inclusive, and the frame that marks the
\* animation finished leaves t shown.
C15_ShownBetweenStartAndTarget ==
    /\ isAnimating => Between(startValue, displayValue, targetValue)
    /\ (cardOp = "frame" /\ mountedRef /\ ~isAnimating) => displayValue = targetValue
C15_Witness ==
    /\ isAnimating
    /\ targetValue < displayValue
    /\ displayValue < startValue

\* the card finished its animation: t shown, not animating, t the baseline
Settled ==
    /\ ~isAnimating
    /\ displayValue = targetValue
    /\ hasInitializedRef
    /\ previousValueRef = targetValue

\* C16: an animation that is not preempted, in a view that stays mounted,
\* reaches its end: t is shown, the card is not animating and t is the
\* baseline; the next transition starts from that baseline.
C16_AnimationCompletes ==
    /\ (isAnimating /\ mountedRef /\ ~preempted) ~> (Settled \/ preempted \/ ~mountedRef)
    /\ [](cardOp = "frame" /\ mountedRef /\ ~isAnimating => Settled)
    /\ [][(cardOp' = "value" /\ timeoutPending' /\ ~timeoutPending)
            => (startValue' = previousValueRef /\ startValue' = displayValue)]_vars
C16_Witness ==
    /\ cardOp = "value"
    /\ timeoutPending
    /\ startValue = 1000
    /\ targetValue = 8
    /\ baseline = 1000

\* C17: a new non-trivial target that arrives while an animation runs starts
\* a fresh transition toward it from the value shown at that moment.
C17_PreemptionRestartsFromShown ==
    (cardOp = "value" /\ preempted /\ value # 0 /\ value # baseline)
        => /\ timeoutPending
           /\ targetValue = value
           /\ startValue = shownBefore

\* C18: once the view is deactivated the card's shown value does not
\* change, and no timer or frame callback schedules a frame.
C18_NoCardChangeAfterDeactivation ==
    [][ ~mountedRef
          => /\ displayValue' = displayValue
             /\ framePending' => framePending
             /\ timeoutPending' => timeoutPending
      ]_vars
C18_Witness ==
    /\ ~mountedRef
    /\ cardOp = "timeout"
    /\ isAnimating
    /\ displayValue # targetValue

====
